---- MODULE Spec2Model ----
(***************************************************************************)
(* A model of the setup code of the ABCNN repository: src/setup.py         *)
(* (setup, setup_datasets, setup_word_vectors, setup_embedding_matrix,     *)
(* setup_model, setup_layer, setup_block, weights_init) and                *)
(* src/src/vis_utils.py (make_block).                                      *)
(*                                                                         *)
(* Python exceptions are modelled by results with ok = FALSE and by the    *)
(* control position pc = "error", from which nothing more happens.         *)
(***************************************************************************)
EXTENDS Integers, Sequences, FiniteSets, TLC

VARIABLES
    pc,                     \* position of the running function
    max_length,             \* config["model"]["max_length"]
    embeddings_size,        \* config["embeddings"]["size"]
    \* ---- setup_datasets
    word2index,             \* dict word -> index
    words,                  \* the cleaned words of the question last processed
    index_map,              \* token sequences of the example being processed
    indexed_examples,       \* index maps of the dataset being processed
    datasets,               \* the finished datasets, in processing order
    nq,                     \* number of questions processed so far
    \* ---- setup_word_vectors, setup_embedding_matrix, setup
    emb_config,             \* config["embeddings"]: format, and whether path is a file
    word_vectors,           \* None or the pretrained vectors (word -> vector)
    rand,                   \* the matrix np.random.uniform drew
    embeddings,             \* the embedding matrix
    returned,               \* what setup returned
    \* ---- setup_model
    use_all_layer_outputs,  \* config["model"]["use_all_layer_outputs"]
    layer_configs,          \* the prefix of config["model"]["layers"] iterated so far
    layers,
    layer_sizes,
    model,
    \* ---- setup_block called on its own
    block_config,
    block_result,
    \* ---- make_block
    model_dict,
    block_prefix,
    made

dataVars  == <<word2index, words, index_map, indexed_examples, datasets, nq>>
tailVars  == <<emb_config, word_vectors, rand, embeddings, returned>>
modelVars == <<use_all_layer_outputs, layer_configs, layers, layer_sizes, model>>
blockVars == <<block_config, block_result>>
visVars   == <<model_dict, block_prefix, made>>
vars == <<pc, max_length, embeddings_size, dataVars, tailVars, modelVars,
          blockVars, visVars>>

None == "None"

\* a raised exception, as the result of a call
Raised == [ok |-> FALSE]

\* the values of variables not yet assigned
NoWordVectors == [loaded |-> FALSE]
NoModel == [ok |-> FALSE]
NoReturn == [ok |-> FALSE]

(***************************************************************************)
(* Bounds of the model.                                                    *)
(***************************************************************************)
MaxWords == 2
MaxLength == 2
MaxQuestions == 3
MaxDatasets == 2

(***************************************************************************)
(* Generic helpers.                                                        *)
(***************************************************************************)
SeqsUpTo(S, n) == UNION {[1..k -> S] : k \in 0..n}

RECURSIVE SumSeq(_)
SumSeq(s) == IF s = <<>> THEN 0 ELSE Head(s) + SumSeq(Tail(s))

Last(s) == s[Len(s)]

(***************************************************************************)
(* setup_datasets.  A question is modelled from the word list that         *)
(* text_to_word_list returns for it (lower-cased, split on blanks).        *)
(***************************************************************************)
PAD == "<PAD>"
Words == {"how", "cat"}
stops == {"the"}
Tokens == Words \cup stops
Vocabulary == Words \cup {PAD}

remove_stop_words(ws) == SelectSeq(ws, LAMBDA w : w \notin stops)

\* lines 221-229 with a new word numbered one past len(word2index)
RECURSIVE IndexWordsSkipping(_, _, _)
IndexWordsSkipping(ws, w2i, indexes) ==
    IF ws = <<>> THEN [word2index |-> w2i, indexes |-> indexes]
    ELSE LET word == Head(ws)
             w2i2 == IF word \notin DOMAIN w2i
                     THEN [w \in DOMAIN w2i \cup {word} |->
                              IF w = word THEN Cardinality(DOMAIN w2i) + 1 ELSE w2i[w]]
                     ELSE w2i
         IN IndexWordsSkipping(Tail(ws), w2i2, Append(indexes, w2i2[word]))

\* lines 221-229: the indices of the words, the lookup growing as new words come
RECURSIVE IndexWords(_, _, _)
IndexWords(ws, w2i, indexes) ==
    IF ws = <<>> THEN [word2index |-> w2i, indexes |-> indexes]
    ELSE LET word == Head(ws)
             w2i2 == IF word \notin DOMAIN w2i
                     THEN [w \in DOMAIN w2i \cup {word} |->
                              IF w = word THEN Cardinality(DOMAIN w2i) ELSE w2i[w]]
                     ELSE w2i
         IN IndexWords(Tail(ws), w2i2, Append(indexes, w2i2[word]))

\* a left-padding variant of lines 231-240
PadOrTruncateLeft(indexes, maxlen) ==
    LET length == IF Len(indexes) < maxlen THEN Len(indexes) ELSE maxlen
        cut == SubSeq(indexes, 1, length)
    IN IF length < maxlen THEN [i \in 1..(maxlen - length) |-> 0] \o cut ELSE cut

\* lines 231-240: truncate on the right, then pad with 0 on the right
PadOrTruncate(indexes, maxlen) ==
    LET length == IF Len(indexes) < maxlen THEN Len(indexes) ELSE maxlen
        cut == SubSeq(indexes, 1, length)
    IN IF length < maxlen THEN cut \o [i \in 1..(maxlen - length) |-> 0] ELSE cut

InitialWord2Index == [w \in {PAD} |-> 0]

\* lines 201-207: the next dataset is taken up
StartDataset ==
    /\ pc = "datasets"
    /\ Len(datasets) < MaxDatasets
    /\ pc' = "examples"
    /\ indexed_examples' = <<>>
    /\ index_map' = <<>>
    /\ UNCHANGED <<word2index, words, datasets, nq>>
    /\ UNCHANGED <<max_length, embeddings_size, tailVars, modelVars, blockVars, visVars>>

\* lines 213-244 for one question column; after the second column lines 247-249
ProcessQuestion(question) ==
    /\ pc = "examples"
    /\ nq < MaxQuestions
    /\ LET cleaned == remove_stop_words(question)
           r == IndexWords(cleaned, word2index, <<>>)
           indexes == PadOrTruncate(r.indexes, max_length)
           im == Append(index_map, indexes)
       IN /\ words' = cleaned
          /\ word2index' = r.word2index
          /\ IF Len(im) = 2
             THEN /\ indexed_examples' = Append(indexed_examples, im)
                  /\ index_map' = <<>>
             ELSE /\ index_map' = im
                  /\ UNCHANGED indexed_examples
    /\ nq' = nq + 1
    /\ UNCHANGED <<pc, datasets>>
    /\ UNCHANGED <<max_length, embeddings_size, tailVars, modelVars, blockVars, visVars>>

\* lines 251-256: the dataset has no more examples
FinishDataset ==
    /\ pc = "examples"
    /\ index_map = <<>>
    /\ datasets' = Append(datasets, indexed_examples)
    /\ indexed_examples' = <<>>
    /\ pc' = "datasets"
    /\ UNCHANGED <<word2index, words, index_map, nq>>
    /\ UNCHANGED <<max_length, embeddings_size, tailVars, modelVars, blockVars, visVars>>

\* line 258
ReturnDatasets ==
    /\ pc = "datasets"
    /\ pc' = "datasets_done"
    /\ UNCHANGED dataVars
    /\ UNCHANGED <<max_length, embeddings_size, tailVars, modelVars, blockVars, visVars>>

InitDatasets ==
    /\ pc = "datasets"
    /\ max_length \in 1..MaxLength
    /\ embeddings_size = 1
    /\ word2index = InitialWord2Index
    /\ words = <<>>
    /\ index_map = <<>>
    /\ indexed_examples = <<>>
    /\ datasets = <<>>
    /\ nq = 0
    /\ emb_config = None /\ word_vectors = NoWordVectors /\ rand = <<>>
    /\ embeddings = <<>> /\ returned = NoReturn
    /\ use_all_layer_outputs = FALSE /\ layer_configs = <<>> /\ layers = <<>>
    /\ layer_sizes = <<>> /\ model = NoModel
    /\ block_config = None /\ block_result = None
    /\ model_dict = None /\ block_prefix = None /\ made = None

NextDatasets ==
    \/ StartDataset
    \/ \E question \in SeqsUpTo(Tokens, MaxWords) : ProcessQuestion(question)
    \/ FinishDataset
    \/ ReturnDatasets

SpecDatasets == InitDatasets /\ [][NextDatasets]_vars

\* the token sequence produced last
LastIndexes ==
    IF index_map # <<>> THEN Last(index_map) ELSE Last(Last(indexed_examples))

ProducedSequences ==
    {index_map[i] : i \in 1..Len(index_map)}
    \cup {indexed_examples[e][c] : e \in 1..Len(indexed_examples), c \in 1..2}
    \cup UNION {{datasets[d][e][c] : e \in 1..Len(datasets[d]), c \in 1..2} :
                    d \in 1..Len(datasets)}

\* C4: every produced token sequence has length max_length; the sequence of
\* the question processed last holds the indices of its cleaned words in
\* order, cut to the first max_length words when there are that many or
\* more (no padding then), and followed by 0s up to max_length otherwise.
C4_PadTruncate ==
    /\ \A s \in ProducedSequences : Len(s) = max_length
    /\ (pc = "examples" /\ (index_map # <<>> \/ indexed_examples # <<>>)) =>
         LET n == Len(words) IN
         /\ Len(LastIndexes) = max_length
         /\ \A i \in 1..max_length :
               LastIndexes[i] = IF i <= n THEN word2index[words[i]] ELSE 0
         /\ n >= max_length => \A i \in 1..max_length : LastIndexes[i] # 0

\* an example whose first question was padded and whose second was truncated
C4_Witness ==
    /\ pc = "examples"
    /\ max_length = 1
    /\ words = <<"how", "cat">>
    /\ indexed_examples = << << <<0>>, <<1>> >> >>


(***************************************************************************)
(* Modules.  A torch module is a record: its class name (the characters of *)
(* m.__class__.__name__), its constructor arguments, its own parameters,   *)
(* its child modules in registration order, and the number of times        *)
(* weights_init has been applied to it.                                    *)
(***************************************************************************)
S_Conv2d == <<"C", "o", "n", "v", "2", "d">>
S_Linear == <<"L", "i", "n", "e", "a", "r">>
S_ABCNN1Attention == <<"A", "B", "C", "N", "N", "1", "A", "t", "t", "e", "n", "t", "i", "o", "n">>
S_ABCNN2Attention == <<"A", "B", "C", "N", "N", "2", "A", "t", "t", "e", "n", "t", "i", "o", "n">>
S_Convolution == <<"C", "o", "n", "v", "o", "l", "u", "t", "i", "o", "n">>
S_WidthAP == <<"W", "i", "d", "t", "h", "A", "P">>
S_BCNNBlock == <<"B", "C", "N", "N", "B", "l", "o", "c", "k">>
S_ABCNN1Block == <<"A", "B", "C", "N", "N", "1", "B", "l", "o", "c", "k">>
S_ABCNN2Block == <<"A", "B", "C", "N", "N", "2", "B", "l", "o", "c", "k">>
S_ABCNN3Block == <<"A", "B", "C", "N", "N", "3", "B", "l", "o", "c", "k">>
S_CNNLayer == <<"C", "N", "N", "L", "a", "y", "e", "r">>
S_Embedding == <<"E", "m", "b", "e", "d", "d", "i", "n", "g">>
S_Model == <<"M", "o", "d", "e", "l">>

\* str.find(pattern) != -1
Contains(s, pattern) ==
    \E i \in 0..(Len(s) - Len(pattern)) : SubSeq(s, i + 1, i + Len(pattern)) = pattern

NoParams == [p \in {} |-> "default"]
DefaultParams(names) == [p \in names |-> "default"]

Module(cls, args, params, children) ==
    [cls |-> cls, args |-> args, params |-> params, children |-> children, visits |-> 0]

Conv2d(in_channels, out_channels) ==
    Module(S_Conv2d, [in_channels |-> in_channels, out_channels |-> out_channels],
           DefaultParams({"weight", "bias"}), <<>>)

Linear(in_features) ==
    Module(S_Linear, [in_features |-> in_features],
           DefaultParams({"weight", "bias"}), <<>>)

Convolution(input_size, output_size, width, channels) ==
    Module(S_Convolution,
           [input_size |-> input_size, output_size |-> output_size,
            width |-> width, channels |-> channels],
           NoParams, <<Conv2d(channels, output_size)>>)

WidthAP(width) == Module(S_WidthAP, [width |-> width], NoParams, <<>>)

MatchScores == {"euclidean", "cosine"}

\* the match-score functions the attention modules know
SupportedMatchScore(match_score) == match_score \in MatchScores

ABCNN1Attention(input_size, maxlen, share_weights, match_score) ==
    Module(S_ABCNN1Attention,
           [input_size |-> input_size, max_length |-> maxlen,
            share_weights |-> share_weights, match_score |-> match_score],
           DefaultParams({"W1", "W2"}), <<>>)

ABCNN2Attention(maxlen, width, match_score) ==
    Module(S_ABCNN2Attention,
           [max_length |-> maxlen, width |-> width, match_score |-> match_score],
           NoParams, <<>>)

BCNNBlock(conv, pool, dropout_rate) ==
    Module(S_BCNNBlock, [dropout_rate |-> dropout_rate], NoParams, <<conv, pool>>)

ABCNN1Block(attn, conv, pool, dropout_rate) ==
    Module(S_ABCNN1Block, [dropout_rate |-> dropout_rate], NoParams, <<attn, conv, pool>>)

ABCNN2Block(conv, attn, dropout_rate) ==
    Module(S_ABCNN2Block, [dropout_rate |-> dropout_rate], NoParams, <<conv, attn>>)

ABCNN3Block(attn1, conv, attn2, dropout_rate) ==
    Module(S_ABCNN3Block, [dropout_rate |-> dropout_rate], NoParams, <<attn1, conv, attn2>>)

CNNLayer(blocks) == Module(S_CNNLayer, [nblocks |-> Len(blocks)], NoParams, blocks)

\* nn.Embedding.from_pretrained(matrix)
Embedding(matrix) ==
    Module(S_Embedding, [rows |-> Cardinality(DOMAIN matrix)],
           [p \in {"weight"} |-> matrix], <<>>)

\* Model(embeddings, layers, use_all_layer_outputs, final_size)
Model(emb, lyrs, use_all, final_size) ==
    Module(S_Model, [use_all_layer_outputs |-> use_all, final_size |-> final_size],
           NoParams, <<emb>> \o lyrs \o <<Linear(final_size)>>)

\* a module and every module below it
RECURSIVE AllModules(_)
AllModules(m) ==
    {m} \cup UNION {AllModules(m.children[i]) : i \in 1..Len(m.children)}

(***************************************************************************)
(* setup_block and setup_layer.  A raised exception is the result Raised.  *)
(***************************************************************************)
BlockTypes == {"bcnn", "abcnn1", "abcnn2", "abcnn3"}

\* setup_block with the doubled input of the abcnn3 convolution lost
setup_block_one_channel(maxlen, bc) ==
    LET input_size == bc.input_size
        output_size == bc.output_size
        width == bc.width
        dropout_rate == bc.dropout_rate
        match_score == bc.match_score
        share_weights == bc.share_weights
    IN  IF bc.type = "bcnn" THEN
            [ok |-> TRUE, output_size |-> output_size,
             block |-> BCNNBlock(Convolution(input_size, output_size, width, 1),
                                 WidthAP(width), dropout_rate)]
        ELSE IF bc.type = "abcnn1" THEN
            IF ~SupportedMatchScore(match_score) THEN Raised ELSE
            [ok |-> TRUE, output_size |-> output_size,
             block |-> ABCNN1Block(
                 ABCNN1Attention(input_size, maxlen, share_weights, match_score),
                 Convolution(input_size, output_size, width, 2),
                 WidthAP(width), dropout_rate)]
        ELSE IF bc.type = "abcnn2" THEN
            IF ~SupportedMatchScore(match_score) THEN Raised ELSE
            [ok |-> TRUE, output_size |-> output_size,
             block |-> ABCNN2Block(Convolution(input_size, output_size, width, 1),
                                   ABCNN2Attention(maxlen, width, match_score),
                                   dropout_rate)]
        ELSE IF bc.type = "abcnn3" THEN
            IF ~SupportedMatchScore(match_score) THEN Raised ELSE
            [ok |-> TRUE, output_size |-> output_size,
             block |-> ABCNN3Block(
                 ABCNN1Attention(input_size, maxlen, share_weights, match_score),
                 Convolution(input_size, output_size, width, 1),
                 ABCNN2Attention(maxlen, width, match_score), dropout_rate)]
        ELSE Raised

\* setup_block that falls back to a bcnn block for an unknown type
setup_block_default_bcnn(maxlen, bc) ==
    LET input_size == bc.input_size
        output_size == bc.output_size
        width == bc.width
        dropout_rate == bc.dropout_rate
        match_score == bc.match_score
        share_weights == bc.share_weights
    IN  IF bc.type = "bcnn" THEN
            [ok |-> TRUE, output_size |-> output_size,
             block |-> BCNNBlock(Convolution(input_size, output_size, width, 1),
                                 WidthAP(width), dropout_rate)]
        ELSE IF bc.type = "abcnn1" THEN
            IF ~SupportedMatchScore(match_score) THEN Raised ELSE
            [ok |-> TRUE, output_size |-> output_size,
             block |-> ABCNN1Block(
                 ABCNN1Attention(input_size, maxlen, share_weights, match_score),
                 Convolution(input_size, output_size, width, 2),
                 WidthAP(width), dropout_rate)]
        ELSE IF bc.type = "abcnn2" THEN
            IF ~SupportedMatchScore(match_score) THEN Raised ELSE
            [ok |-> TRUE, output_size |-> output_size,
             block |-> ABCNN2Block(Convolution(input_size, output_size, width, 1),
                                   ABCNN2Attention(maxlen, width, match_score),
                                   dropout_rate)]
        ELSE IF bc.type = "abcnn3" THEN
            IF ~SupportedMatchScore(match_score) THEN Raised ELSE
            [ok |-> TRUE, output_size |-> output_size,
             block |-> ABCNN3Block(
                 ABCNN1Attention(input_size, maxlen, share_weights, match_score),
                 Convolution(input_size, output_size, width, 2),
                 ABCNN2Attention(maxlen, width, match_score), dropout_rate)]
        ELSE
            [ok |-> TRUE, output_size |-> output_size,
             block |-> BCNNBlock(Convolution(input_size, output_size, width, 1),
                                 WidthAP(width), dropout_rate)]

\* lines 397-429
setup_block(maxlen, bc) ==
    LET input_size == bc.input_size
        output_size == bc.output_size
        width == bc.width
        dropout_rate == bc.dropout_rate
        match_score == bc.match_score
        share_weights == bc.share_weights
    IN  IF bc.type = "bcnn" THEN
            [ok |-> TRUE, output_size |-> output_size,
             block |-> BCNNBlock(Convolution(input_size, output_size, width, 1),
                                 WidthAP(width), dropout_rate)]
        ELSE IF bc.type = "abcnn1" THEN
            IF ~SupportedMatchScore(match_score) THEN Raised ELSE
            [ok |-> TRUE, output_size |-> output_size,
             block |-> ABCNN1Block(
                 ABCNN1Attention(input_size, maxlen, share_weights, match_score),
                 Convolution(input_size, output_size, width, 2),
                 WidthAP(width), dropout_rate)]
        ELSE IF bc.type = "abcnn2" THEN
            IF ~SupportedMatchScore(match_score) THEN Raised ELSE
            [ok |-> TRUE, output_size |-> output_size,
             block |-> ABCNN2Block(Convolution(input_size, output_size, width, 1),
                                   ABCNN2Attention(maxlen, width, match_score),
                                   dropout_rate)]
        ELSE IF bc.type = "abcnn3" THEN
            IF ~SupportedMatchScore(match_score) THEN Raised ELSE
            [ok |-> TRUE, output_size |-> output_size,
             block |-> ABCNN3Block(
                 ABCNN1Attention(input_size, maxlen, share_weights, match_score),
                 Convolution(input_size, output_size, width, 2),
                 ABCNN2Attention(maxlen, width, match_score), dropout_rate)]
        ELSE Raised

\* lines 375-378: the loop over the layer's block descriptors
RECURSIVE SetupBlocks(_, _, _, _)
SetupBlocks(maxlen, layer_config, blocks, output_sizes) ==
    IF layer_config = <<>>
    THEN [ok |-> TRUE, blocks |-> blocks, output_sizes |-> output_sizes]
    ELSE LET r == setup_block(maxlen, Head(layer_config))
         IN IF ~r.ok THEN Raised
            ELSE SetupBlocks(maxlen, Tail(layer_config), Append(blocks, r.block),
                             Append(output_sizes, r.output_size))

\* lines 373-381
setup_layer(maxlen, layer_config) ==
    LET r == SetupBlocks(maxlen, layer_config, <<>>, <<>>)
    IN IF ~r.ok THEN Raised
       ELSE [ok |-> TRUE, layer |-> CNNLayer(r.blocks),
             layer_size |-> SumSeq(r.output_sizes)]


(***************************************************************************)
(* weights_init and model.apply.                                           *)
(***************************************************************************)
Reinit(m, how) == [m EXCEPT !.params = [p \in DOMAIN m.params |->
                       IF p \in DOMAIN how THEN how[p] ELSE m.params[p]]]

XavierWeightZeroBias == [p \in {"weight", "bias"} |->
                            IF p = "weight" THEN "xavier_normal" ELSE "zero"]
XavierW1W2 == [p \in {"W1", "W2"} |-> "xavier_normal"]

\* weights_init without the branch for Linear modules
weights_init_no_linear(m) ==
    IF Contains(m.cls, S_Conv2d) THEN Reinit(m, XavierWeightZeroBias)
    ELSE IF Contains(m.cls, S_ABCNN1Attention) THEN Reinit(m, XavierW1W2)
    ELSE m

\* lines 444-453
weights_init(m) ==
    IF Contains(m.cls, S_Conv2d) THEN Reinit(m, XavierWeightZeroBias)
    ELSE IF Contains(m.cls, S_Linear) THEN Reinit(m, XavierWeightZeroBias)
    ELSE IF Contains(m.cls, S_ABCNN1Attention) THEN Reinit(m, XavierW1W2)
    ELSE m

\* torch.nn.Module.apply(fn): the children first, then the module itself
RECURSIVE Apply(_)
Apply(m) ==
    LET below == [m EXCEPT !.children = [i \in 1..Len(m.children) |-> Apply(m.children[i])]]
    IN [weights_init(below) EXCEPT !.visits = @ + 1]

(***************************************************************************)
(* setup_model.                                                            *)
(***************************************************************************)
MaxLayers == 2
MaxBlocks == 1
MaxEmbSize == 1

\* line 114 without the embedding size that line 107 puts first
FinalSizeLayersOnly(sizes, use_all) ==
    IF use_all THEN 2 * SumSeq(Tail(sizes)) ELSE 2 * Last(sizes)

\* line 114
FinalSize(sizes, use_all) ==
    IF use_all THEN 2 * SumSeq(sizes) ELSE 2 * Last(sizes)

\* lines 99-107
EnterSetupModel ==
    /\ layer_configs = <<>>
    /\ layers = <<>>
    /\ layer_sizes = <<embeddings_size>>
    /\ model = NoModel

\* lines 108-111: one iteration of the loop over the layer configurations
SetupLayerStep(layer_config) ==
    /\ pc = "layers"
    /\ Len(layers) < MaxLayers
    /\ layer_configs' = Append(layer_configs, layer_config)
    /\ LET r == setup_layer(max_length, layer_config)
       IN IF r.ok
          THEN /\ layers' = Append(layers, r.layer)
               /\ layer_sizes' = Append(layer_sizes, r.layer_size)
               /\ UNCHANGED pc
          ELSE /\ pc' = "error"
               /\ UNCHANGED <<layers, layer_sizes>>
    /\ UNCHANGED <<use_all_layer_outputs, model>>
    /\ UNCHANGED <<max_length, embeddings_size, dataVars, tailVars, blockVars, visVars>>

\* lines 113-120: no layer configuration is left
FinishModel ==
    /\ pc = "layers"
    /\ LET final_size == FinalSize(layer_sizes, use_all_layer_outputs)
           built == Model(Embedding(embeddings), layers, use_all_layer_outputs, final_size)
       IN model' = [ok |-> TRUE, module |-> Apply(built)]
    /\ pc' = "model_done"
    /\ UNCHANGED <<use_all_layer_outputs, layer_configs, layers, layer_sizes>>
    /\ UNCHANGED <<max_length, embeddings_size, dataVars, tailVars, blockVars, visVars>>

BlockConfig(type, output_size) ==
    [type |-> type, input_size |-> 1, output_size |-> output_size, width |-> 1,
     dropout_rate |-> 50, match_score |-> "cosine", share_weights |-> TRUE]

ModelBlockConfigs ==
    {BlockConfig("bcnn", 1), BlockConfig("abcnn1", 2), BlockConfig("abcnn2", 1),
     BlockConfig("abcnn3", 2), BlockConfig("lstm", 1)}

ZeroVector(size) == [i \in 1..size |-> 0]

InitModel ==
    /\ pc = "layers"
    /\ max_length \in 1..MaxLength
    /\ embeddings_size \in 1..MaxEmbSize
    /\ use_all_layer_outputs \in BOOLEAN
    /\ embeddings = [i \in 0..1 |-> ZeroVector(embeddings_size)]
    /\ EnterSetupModel
    /\ word2index = InitialWord2Index
    /\ words = <<>> /\ index_map = <<>> /\ indexed_examples = <<>>
    /\ datasets = <<>> /\ nq = 0
    /\ emb_config = None /\ word_vectors = NoWordVectors /\ rand = <<>>
    /\ returned = NoReturn
    /\ block_config = None /\ block_result = None
    /\ model_dict = None /\ block_prefix = None /\ made = None

NextModel ==
    \/ \E layer_config \in SeqsUpTo(ModelBlockConfigs, MaxBlocks) :
           SetupLayerStep(layer_config)
    \/ FinishModel

SpecModel == InitModel /\ [][NextModel]_vars


ConfiguredLayerSize(layer_config) ==
    SumSeq([j \in 1..Len(layer_config) |-> layer_config[j].output_size])

ConfiguredSizes == [i \in 1..Len(layer_configs) |-> ConfiguredLayerSize(layer_configs[i])]

UnknownTypeConfigured ==
    \E i \in 1..Len(layer_configs) : \E j \in 1..Len(layer_configs[i]) :
        layer_configs[i][j].type \notin BlockTypes

\* C1: a block descriptor whose type is none of bcnn, abcnn1, abcnn2, abcnn3
\* makes setup_block raise and return no block; setup_layer raises with it,
\* and setup_model stops in the error without a layer for that
\* configuration and without a model.
C1_UnknownTypeRaises ==
    /\ \A i \in 1..Len(layer_configs) : \A j \in 1..Len(layer_configs[i]) :
          layer_configs[i][j].type \notin BlockTypes =>
             /\ setup_block(max_length, layer_configs[i][j]) = Raised
             /\ setup_layer(max_length, layer_configs[i]) = Raised
    /\ UnknownTypeConfigured =>
          /\ pc = "error"
          /\ model = NoModel
          /\ Len(layers) = Len(layer_configs) - 1
    /\ pc = "model_done" => ~UnknownTypeConfigured

\* a second layer configuration with an unknown type, after a good first one
C1_Witness ==
    /\ pc = "error"
    /\ Len(layer_configs) = 2
    /\ Len(layers) = 1
    /\ Len(layer_configs[2]) = 1 /\ layer_configs[2][1].type = "lstm"

\* C3 as stated: final_size is twice the sum of the configured layers'
\* pooled sizes with use_all_layer_outputs, twice the last layer's otherwise.
C3_Original ==
    pc = "model_done" =>
        model.module.args.final_size =
            IF use_all_layer_outputs THEN 2 * SumSeq(ConfiguredSizes)
            ELSE IF layer_configs # <<>> THEN 2 * Last(ConfiguredSizes)
            ELSE model.module.args.final_size

\* C3 amended: final_size is twice the sum of embeddings_size and all
\* configured layers' pooled sizes with use_all_layer_outputs; otherwise
\* twice the last layer's pooled size, or twice embeddings_size when no layer
\* is configured; a layer's pooled size is the sum of its blocks' output_size.
C3_FinalSize ==
    /\ pc \in {"layers", "model_done"} =>
          /\ Len(layer_sizes) = Len(layer_configs) + 1
          /\ \A i \in 1..Len(layer_configs) : layer_sizes[i + 1] = ConfiguredSizes[i]
    /\ pc = "model_done" =>
          model.module.args.final_size =
              IF use_all_layer_outputs
              THEN 2 * (embeddings_size + SumSeq(ConfiguredSizes))
              ELSE IF layer_configs # <<>> THEN 2 * Last(ConfiguredSizes)
              ELSE 2 * embeddings_size

\* two layers of different pooled sizes, all layer outputs used
C3_Witness ==
    /\ pc = "model_done"
    /\ use_all_layer_outputs
    /\ ConfiguredSizes = <<2, 1>>
    /\ model.module.args.final_size = 2 * (embeddings_size + 3)

\* a module tree with the effect of weights_init taken back
RECURSIVE Uninit(_)
Uninit(m) ==
    [m EXCEPT !.visits = 0,
              !.children = [i \in 1..Len(m.children) |-> Uninit(m.children[i])],
              !.params = IF \/ Contains(m.cls, S_Conv2d) \/ Contains(m.cls, S_Linear)
                            \/ Contains(m.cls, S_ABCNN1Attention)
                         THEN DefaultParams(DOMAIN m.params) ELSE @]

\* C10: until the model is constructed no module has been initialized; in
\* the returned model weights_init has been applied exactly once to every
\* module of the tree: Conv2d and Linear modules have a re-initialized weight
\* and a zero bias, ABCNN1Attention modules re-initialized W1 and W2, and
\* everything else, the embedding table included, is as constructed.
C10_WeightsInit ==
    /\ pc = "layers" =>
          \A i \in 1..Len(layers) : \A m \in AllModules(layers[i]) :
              m.visits = 0 /\ \A p \in DOMAIN m.params : m.params[p] = "default"
    /\ pc = "model_done" =>
          /\ \A m \in AllModules(model.module) :
                /\ m.visits = 1
                /\ (Contains(m.cls, S_Conv2d) \/ Contains(m.cls, S_Linear)) =>
                      m.params = XavierWeightZeroBias
                /\ Contains(m.cls, S_ABCNN1Attention) => m.params = XavierW1W2
                /\ m.cls = S_Embedding => m.params["weight"] = embeddings
          /\ Uninit(model.module) =
                Model(Embedding(embeddings), layers, use_all_layer_outputs,
                      model.module.args.final_size)

\* a model with an ABCNN1 attention, convolutions, the embedding and the head
C10_Witness ==
    /\ pc = "model_done"
    /\ Len(layer_configs) = 2
    /\ Len(layer_configs[1]) = 1 /\ layer_configs[1][1].type = "abcnn1"
    /\ Len(layer_configs[2]) = 1 /\ layer_configs[2][1].type = "abcnn2"
    /\ \E m \in AllModules(model.module) :
          m.cls = S_ABCNN1Attention /\ m.params = XavierW1W2
    /\ \E m \in AllModules(model.module) :
          m.cls = S_Linear /\ m.params = XavierWeightZeroBias


(***************************************************************************)
(* setup from line 75 on: setup_word_vectors, setup_embedding_matrix,      *)
(* setup_model and the return.  Vector entries are in units of 0.01.       *)
(***************************************************************************)
UniformLow == -1
UniformHigh == 1
RandVals == UniformLow..(UniformHigh - 1)

SupportedFormats == {"word2vec", "fasttext"}
Formats == SupportedFormats \cup {"glove"}

\* the vector a pretrained file holds for a word (none of them in the
\* uniform range, so a copied row differs from a drawn one)
PreTrained(word, size) ==
    [i \in 1..size |-> IF word = PAD THEN 2 ELSE IF word = "how" THEN 3 ELSE 4]

\* setup_word_vectors that returns None for an unknown format
setup_word_vectors_default_none(cfg, keys) ==
    IF cfg.format \in SupportedFormats /\ cfg.is_file
    THEN [ok |-> TRUE,
          word_vectors |-> [loaded |-> TRUE,
                            vectors |-> [w \in keys |-> PreTrained(w, embeddings_size)]]]
    ELSE [ok |-> TRUE, word_vectors |-> NoWordVectors]

\* setup_word_vectors that raises when embeddings_path is not a file
setup_word_vectors_missing_file_raises(cfg, keys) ==
    IF cfg.format \in SupportedFormats /\ cfg.is_file
    THEN [ok |-> TRUE,
          word_vectors |-> [loaded |-> TRUE,
                            vectors |-> [w \in keys |-> PreTrained(w, embeddings_size)]]]
    ELSE Raised

\* lines 140-158; keys are the words the file at embeddings_path holds
setup_word_vectors(cfg, keys) ==
    IF cfg.format = "word2vec" THEN
        IF cfg.is_file
        THEN [ok |-> TRUE,
              word_vectors |-> [loaded |-> TRUE,
                                vectors |-> [w \in keys |-> PreTrained(w, embeddings_size)]]]
        ELSE [ok |-> TRUE, word_vectors |-> NoWordVectors]
    ELSE IF cfg.format = "fasttext" THEN
        IF cfg.is_file
        THEN [ok |-> TRUE,
              word_vectors |-> [loaded |-> TRUE,
                                vectors |-> [w \in keys |-> PreTrained(w, embeddings_size)]]]
        ELSE [ok |-> TRUE, word_vectors |-> NoWordVectors]
    ELSE Raised

\* line 276: the rows of the matrix
NumRows(w2i) == Cardinality(DOMAIN w2i) + 1

\* word2index.items() in insertion order
RECURSIVE Items(_, _)
Items(w2i, k) ==
    IF k >= Cardinality(DOMAIN w2i) THEN <<>>
    ELSE <<CHOOSE w \in DOMAIN w2i : w2i[w] = k>> \o Items(w2i, k + 1)

\* lines 281-285 with the KeyError of a missing word not caught
RECURSIVE FillRowsNoCatch(_, _, _, _)
FillRowsNoCatch(items, w2i, wv, emb) ==
    IF items = <<>> THEN [ok |-> TRUE, embeddings |-> emb]
    ELSE LET word == Head(items) IN
         IF word \in DOMAIN wv.vectors
         THEN FillRowsNoCatch(Tail(items), w2i, wv,
                              [emb EXCEPT ![w2i[word]] = wv.vectors[word]])
         ELSE Raised

\* lines 281-285
RECURSIVE FillRows(_, _, _, _)
FillRows(items, w2i, wv, emb) ==
    IF items = <<>> THEN [ok |-> TRUE, embeddings |-> emb]
    ELSE LET word == Head(items) IN
         IF word \in DOMAIN wv.vectors
         THEN FillRows(Tail(items), w2i, wv, [emb EXCEPT ![w2i[word]] = wv.vectors[word]])
         ELSE FillRows(Tail(items), w2i, wv, emb)

\* lines 276-277: the drawn matrix with row 0 set to 0
InitialMatrix(drawn, size) ==
    [i \in DOMAIN drawn |-> IF i = 0 THEN ZeroVector(size) ELSE drawn[i]]

\* lines 276-289; drawn is what np.random.uniform returned
setup_embedding_matrix(wv, w2i, size, drawn) ==
    IF wv.loaded
    THEN FillRows(Items(w2i, 0), w2i, wv, InitialMatrix(drawn, size))
    ELSE [ok |-> TRUE, embeddings |-> InitialMatrix(drawn, size)]

\* line 75
SetupWordVectors ==
    /\ pc = "word_vectors"
    /\ \E keys \in SUBSET Vocabulary :
          LET r == setup_word_vectors(emb_config, keys)
          IN IF r.ok
             THEN word_vectors' = r.word_vectors /\ pc' = "embedding_matrix"
             ELSE pc' = "error" /\ UNCHANGED word_vectors
    /\ UNCHANGED <<emb_config, rand, embeddings, returned>>
    /\ UNCHANGED <<max_length, embeddings_size, dataVars, modelVars, blockVars, visVars>>

\* line 76
SetupEmbeddingMatrix ==
    /\ pc = "embedding_matrix"
    /\ \E drawn \in [0..(NumRows(word2index) - 1) -> [1..embeddings_size -> RandVals]] :
          LET r == setup_embedding_matrix(word_vectors, word2index, embeddings_size, drawn)
          IN /\ rand' = drawn
             /\ IF r.ok
                THEN embeddings' = r.embeddings /\ pc' = "layers"
                ELSE pc' = "error" /\ UNCHANGED embeddings
    /\ UNCHANGED <<emb_config, word_vectors, returned>>
    /\ UNCHANGED <<max_length, embeddings_size, dataVars, modelVars, blockVars, visVars>>

\* line 80
SetupReturn ==
    /\ pc = "model_done"
    /\ returned' = [ok |-> TRUE, datasets |-> datasets, model |-> model.module]
    /\ pc' = "done"
    /\ UNCHANGED <<emb_config, word_vectors, rand, embeddings>>
    /\ UNCHANGED <<max_length, embeddings_size, dataVars, modelVars, blockVars, visVars>>

\* lines 66-72 done for one dataset of one example: the first question holds
\* the given words, the second none
Init ==
    /\ pc = "word_vectors"
    /\ max_length = MaxLength
    /\ embeddings_size \in 1..MaxEmbSize
    /\ \E q1 \in {q \in SeqsUpTo(Words, Cardinality(Words)) :
                     \A i, j \in 1..Len(q) : i # j => q[i] # q[j]} :
          LET r == IndexWords(remove_stop_words(q1), InitialWord2Index, <<>>)
          IN /\ word2index = r.word2index
             /\ words = <<>>
             /\ datasets = << << << PadOrTruncate(r.indexes, max_length),
                                    PadOrTruncate(<<>>, max_length) >> >> >>
             /\ nq = 2
    /\ index_map = <<>>
    /\ indexed_examples = <<>>
    /\ emb_config \in [format : Formats, is_file : BOOLEAN]
    /\ word_vectors = NoWordVectors
    /\ rand = <<>>
    /\ embeddings = <<>>
    /\ returned = NoReturn
    /\ use_all_layer_outputs \in BOOLEAN
    /\ EnterSetupModel
    /\ block_config = None /\ block_result = None
    /\ model_dict = None /\ block_prefix = None /\ made = None

SetupLayerConfigs == {<<BlockConfig("bcnn", 1)>>, <<BlockConfig("lstm", 1)>>}

Next ==
    \/ SetupWordVectors
    \/ SetupEmbeddingMatrix
    \/ \E layer_config \in SetupLayerConfigs : SetupLayerStep(layer_config)
    \/ FinishModel
    \/ SetupReturn

Spec == Init /\ [][Next]_vars


MatrixBuilt == embeddings # <<>>

\* C5: row 0 of the embedding matrix that setup_embedding_matrix returns is
\* the all-zero vector, whatever the pretrained vectors hold.
C5_RowZeroIsZero ==
    MatrixBuilt => embeddings[0] = ZeroVector(embeddings_size)

MaxSize == 2

AllBlockConfigs ==
    [type : BlockTypes \cup {"lstm"}, input_size : 1..MaxSize, output_size : 1..MaxSize,
     width : 1..MaxSize, dropout_rate : {50},
     match_score : MatchScores \cup {"manhattan"}, share_weights : BOOLEAN]

\* lines 384-429
CallSetupBlock ==
    /\ pc = "setup_block"
    /\ LET r == setup_block(max_length, block_config)
       IN /\ block_result' = r
          /\ pc' = IF r.ok THEN "block_done" ELSE "error"
    /\ UNCHANGED block_config
    /\ UNCHANGED <<max_length, embeddings_size, dataVars, tailVars, modelVars, visVars>>

InitBlock ==
    /\ pc = "setup_block"
    /\ max_length \in 1..MaxLength
    /\ block_config \in AllBlockConfigs
    /\ block_result = Raised
    /\ embeddings_size = 1
    /\ word2index = InitialWord2Index
    /\ words = <<>> /\ index_map = <<>> /\ indexed_examples = <<>>
    /\ datasets = <<>> /\ nq = 0
    /\ emb_config = None /\ word_vectors = NoWordVectors /\ rand = <<>>
    /\ embeddings = <<>> /\ returned = NoReturn
    /\ use_all_layer_outputs = FALSE /\ layer_configs = <<>> /\ layers = <<>>
    /\ layer_sizes = <<>> /\ model = NoModel
    /\ model_dict = None /\ block_prefix = None /\ made = None

NextBlock == CallSetupBlock

SpecBlock == InitBlock /\ [][NextBlock]_vars

\* C2: setup_block returns no block for a descriptor whose match_score is
\* neither euclidean nor cosine, whatever the block type.
C2_UnsupportedMatchScoreRaises ==
    pc = "block_done" => block_config.match_score \in MatchScores

Parts(block) == {block.children[i] : i \in 1..Len(block.children)}

\* C9: the returned block holds one Convolution of the configured sizes and
\* width, with channel multiplier 2 exactly for abcnn1 and abcnn3 (which
\* also hold the ABCNN1Attention) and 1 for bcnn and abcnn2; a WidthAP of the
\* configured width exactly for bcnn and abcnn1; an ABCNN2Attention of the
\* configured width exactly for abcnn2 and abcnn3; and the returned size is
\* the descriptor's output_size.
C9_BlockWiring ==
    pc = "block_done" =>
        LET parts == Parts(block_result.block)
            type == block_config.type
            convs == {m \in parts : m.cls = S_Convolution}
            pools == {m \in parts : m.cls = S_WidthAP}
            attn1s == {m \in parts : m.cls = S_ABCNN1Attention}
            attn2s == {m \in parts : m.cls = S_ABCNN2Attention}
        IN /\ Cardinality(convs) = 1
           /\ \A c \in convs :
                 /\ c.args.channels = IF type \in {"abcnn1", "abcnn3"} THEN 2 ELSE 1
                 /\ c.args.input_size = block_config.input_size
                 /\ c.args.output_size = block_config.output_size
                 /\ c.args.width = block_config.width
           /\ (attn1s # {}) = (type \in {"abcnn1", "abcnn3"})
           /\ (pools # {}) = (type \in {"bcnn", "abcnn1"})
           /\ \A q \in pools : q.args.width = block_config.width
           /\ (attn2s # {}) = (type \in {"abcnn2", "abcnn3"})
           /\ \A q \in attn2s : q.args.width = block_config.width
           /\ parts = convs \cup pools \cup attn1s \cup attn2s
           /\ block_result.output_size = block_config.output_size

\* an abcnn3 block of width 2: doubled convolution input, attention pooling
C9_Witness ==
    /\ pc = "block_done"
    /\ block_config.type = "abcnn3"
    /\ block_config.width = 2
    /\ \E c \in Parts(block_result.block) :
          c.cls = S_Convolution /\ c.args.channels = 2 /\ c.args.width = 2
    /\ \E q \in Parts(block_result.block) :
          q.cls = S_ABCNN2Attention /\ q.args.width = 2


(***************************************************************************)
(* make_block (src/src/vis_utils.py).  A weight name is the sequence of    *)
(* its dot-separated parts; a block prefix is a sequence of parts too (the *)
(* text "layers.0." is <<"layers", "0">>).  No part used here occurs       *)
(* inside another, so str.replace and the substring test of Python are     *)
(* the same on the texts and on the sequences of parts.                    *)
(***************************************************************************)
MaxPrefix == 2

\* prefix in name
IsSubstring(prefix, name) == Contains(name, prefix)

\* name.replace(old, ""): every occurrence, from the left, not overlapping
RECURSIVE Replace(_, _)
Replace(name, old) ==
    IF old = <<>> \/ Len(name) < Len(old) THEN name
    ELSE IF SubSeq(name, 1, Len(old)) = old
         THEN Replace(SubSeq(name, Len(old) + 1, Len(name)), old)
         ELSE <<Head(name)>> \o Replace(Tail(name), old)

\* the attribute under which a block or a Convolution registers a child
AttrName(child) ==
    IF child.cls = S_Convolution \/ child.cls = S_Conv2d THEN "conv"
    ELSE IF child.cls = S_WidthAP THEN "pool"
    ELSE IF child.cls = S_ABCNN1Attention THEN "attn1"
    ELSE "attn2"

\* module.state_dict(): the parameters of the module and of those below it
RECURSIVE state_dict_keys(_)
state_dict_keys(m) ==
    {<<p>> : p \in DOMAIN m.params}
    \cup UNION {{<<AttrName(m.children[i])>> \o k : k \in state_dict_keys(m.children[i])} :
                   i \in 1..Len(m.children)}

state_dict(m) == [k \in state_dict_keys(m) |-> "default"]

\* block.load_state_dict(d), strict: the keys of d must be the block's
load_state_dict(block, d) ==
    IF DOMAIN d = state_dict_keys(block)
    THEN [ok |-> TRUE, state |-> d]
    ELSE Raised

\* lines 26-34
make_block(mdict, prefix, maxlen, bc) ==
    LET r == setup_block(maxlen, bc) IN
    IF ~r.ok THEN Raised ELSE
    LET block_dict == state_dict(r.block)
        hits == {name \in DOMAIN mdict :
                    /\ IsSubstring(prefix, name)
                    /\ Replace(name, prefix) \in DOMAIN block_dict}
        filled == [k \in DOMAIN block_dict \cup hits |->
                      IF k \in hits THEN mdict[k] ELSE block_dict[k]]
        loaded == load_state_dict(r.block, filled)
    IN IF ~loaded.ok THEN Raised
       ELSE [ok |-> TRUE, block |-> r.block, state |-> loaded.state,
             output_size |-> r.output_size]

\* the state of a trained model: the block's weights under the prefix, and
\* some weights of the rest of the model
SavedModelDict(block, prefix, others) ==
    LET keys == state_dict_keys(block)
        names == {prefix \o k : k \in keys} \cup others
    IN [name \in names |-> IF name \in others THEN "other" ELSE "saved"]

PrefixParts == {"0", "conv"}
OtherWeights == {<<"fc", "weight">>, <<"fc", "bias">>}

\* lines 7-34
CallMakeBlock ==
    /\ pc = "make_block"
    /\ LET r == make_block(model_dict, block_prefix, max_length, block_config)
       IN /\ made' = r
          /\ pc' = IF r.ok THEN "make_done" ELSE "error"
    /\ UNCHANGED <<model_dict, block_prefix, block_config, block_result>>
    /\ UNCHANGED <<max_length, embeddings_size, dataVars, tailVars, modelVars>>

InitVis ==
    /\ pc = "make_block"
    /\ max_length = MaxLength
    /\ block_config \in {BlockConfig(t, 1) : t \in BlockTypes}
    /\ block_result = setup_block(max_length, block_config)
    /\ block_prefix \in SeqsUpTo(PrefixParts, MaxPrefix)
    /\ \E others \in SUBSET OtherWeights :
          model_dict = SavedModelDict(block_result.block, block_prefix, others)
    /\ made = Raised
    /\ embeddings_size = 1
    /\ word2index = InitialWord2Index
    /\ words = <<>> /\ index_map = <<>> /\ indexed_examples = <<>>
    /\ datasets = <<>> /\ nq = 0
    /\ emb_config = None /\ word_vectors = NoWordVectors /\ rand = <<>>
    /\ embeddings = <<>> /\ returned = NoReturn
    /\ use_all_layer_outputs = FALSE /\ layer_configs = <<>> /\ layers = <<>>
    /\ layer_sizes = <<>> /\ model = NoModel

NextVis == CallMakeBlock

SpecVis == InitVis /\ [][NextVis]_vars

\* C6: for a non-empty block_prefix and a model_dict that holds the weights
\* of the block under block_prefix + p for every parameter name p,
\* make_block returns without error a block whose state holds for every p
\* the saved weights.
C6_RoundTrip ==
    (pc # "make_block" /\ block_prefix # <<>>) =>
        /\ pc = "make_done"
        /\ made.ok
        /\ \A k \in state_dict_keys(block_result.block) :
              made.state[k] = model_dict[block_prefix \o k]


MissingFile == emb_config.format \in SupportedFormats /\ ~emb_config.is_file

\* C11: with a supported format and an embeddings path that is not a file,
\* setup_word_vectors returns None without raising; the embedding matrix
\* built from None then has len(word2index) + 1 rows, and every row other
\* than row 0 is the row that was drawn at random.
C11_MissingFileGivesNone ==
    MissingFile =>
        /\ \A keys \in SUBSET Vocabulary :
              setup_word_vectors(emb_config, keys) =
                  [ok |-> TRUE, word_vectors |-> NoWordVectors]
        /\ word_vectors = NoWordVectors
        /\ pc = "error" => MatrixBuilt
        /\ pc \notin {"word_vectors", "embedding_matrix"} => MatrixBuilt
        /\ MatrixBuilt =>
              /\ DOMAIN embeddings = 0..Cardinality(DOMAIN word2index)
              /\ Cardinality(DOMAIN embeddings) = Cardinality(DOMAIN word2index) + 1
              /\ \A i \in DOMAIN embeddings : i # 0 => embeddings[i] = rand[i]

\* a fasttext path that is no file, three words indexed, four rows built
C11_Witness ==
    /\ emb_config.format = "fasttext"
    /\ ~emb_config.is_file
    /\ MatrixBuilt
    /\ Cardinality(DOMAIN word2index) = 3
    /\ DOMAIN embeddings = 0..3
    /\ \A i \in 1..3 : embeddings[i] = rand[i]


(***************************************************************************)
(* The word-index lookup across the whole run of setup_datasets.           *)
(***************************************************************************)
Word2IndexWellFormed ==
    /\ \A v, w \in DOMAIN word2index : word2index[v] = word2index[w] => v = w
    /\ {word2index[w] : w \in DOMAIN word2index} =
           0..(Cardinality(DOMAIN word2index) - 1)
    /\ PAD \in DOMAIN word2index
    /\ word2index[PAD] = 0

StoredIndexesKnown ==
    \A sq \in ProducedSequences : \A k \in DOMAIN sq :
        /\ \/ sq[k] = 0
           \/ Cardinality({w \in DOMAIN word2index : word2index[w] = sq[k]}) = 1
        /\ sq[k] < NumRows(word2index)

AssignedIndexKept ==
    \A w \in DOMAIN word2index :
        w \in DOMAIN word2index' /\ word2index'[w] = word2index[w]

\* C12: all through setup_datasets word2index is injective with values
\* exactly 0..len(word2index)-1 and "<PAD>" at 0, an index once given to a
\* word never changes, and every index stored in a produced sequence is 0
\* or the index of exactly one word and is below len(word2index) + 1, the
\* number of rows of the embedding matrix built from the lookup.
C12_Word2IndexStable ==
    /\ [](Word2IndexWellFormed /\ StoredIndexesKnown)
    /\ [][AssignedIndexKept]_vars

\* a second dataset is under way: the first holds the index of "how", the
\* question just processed brought "cat" in as index 2
C12_Witness ==
    /\ pc = "examples"
    /\ Len(datasets) = 1
    /\ \E e \in DOMAIN datasets[1] : \E q \in DOMAIN datasets[1][e] :
           \E k \in DOMAIN datasets[1][e][q] : datasets[1][e][q][k] = 1
    /\ \A e \in DOMAIN datasets[1] : \A q \in DOMAIN datasets[1][e] :
           \A k \in DOMAIN datasets[1][e][q] : datasets[1][e][q][k] # 2
    /\ Cardinality(DOMAIN word2index) = 3
    /\ \E q \in DOMAIN index_map : \E k \in DOMAIN index_map[q] : index_map[q][k] = 2

====
